---- MODULE Spec2Model ----
(***************************************************************************)
(* Decision-time detection of mini-projects/04_decision_making.ipynb.      *)
(*                                                                         *)
(* The notebook asks for get_decision_time(rate_monitor_A, rate_monitor_B, *)
(* avg_window_width, rate_threshold) and gives its body as a fragment:     *)
(*                                                                         *)
(*   smoothed_rates_A = rate_monitor_A.smooth_rate(window="flat",          *)
(*                                     width=avg_window_width) / b2.Hz     *)
(*   idx_A = numpy.argmax(smoothed_rates_A > rate_threshold/b2.Hz)         *)
(*   t_A = idx_A * b2.defaultclock.dt                                      *)
(*                                                                         *)
(* smooth_rate is brian2's PopulationRateMonitor.smooth_rate and argmax is *)
(* numpy's; both are modelled by what the library functions compute (the   *)
(* flat window has int(width/2/dt)*2+1 samples and is applied with         *)
(* numpy.convolve(..., mode="same"), i.e. centred on the sample and        *)
(* zero-padded at both ends).                                              *)
(*                                                                         *)
(* Conventions of the model                                                *)
(*   - a rate series is a sequence of naturals (Hz); sample index i of the *)
(*     code is position i+1 of the sequence;                               *)
(*   - avg_window_width is given in samples (width / dt of the code);      *)
(*   - dt and all times are in units of 0.1 ms (1 = brian2's default       *)
(*     clock step, 10 = 1 ms);                                             *)
(*   - a smoothed series is kept exactly, as numerators over one common    *)
(*     denominator (the window's sample count), so that the comparison     *)
(*     with the threshold involves no rounding.                            *)
(***************************************************************************)
EXTENDS Integers, Sequences, FiniteSets

VARIABLES rate_monitor_A,    \* recorded rate series of population "Left"
          rate_monitor_B,    \* recorded rate series of population "Right"
          avg_window_width,  \* caller's window width, in samples
          rate_threshold,    \* caller's threshold, in Hz
          dt,                \* b2.defaultclock.dt, a global the fragment reads
          pc,                \* "call" | "returned" | "raised"
          smoothed_rates_A,  \* the fragment's local, NoResult until computed
          smoothed_rates_B,
          decision,          \* the returned tuple, NoResult before/without it
          runs,              \* invocations completed in this batch
          log                \* the invocations so far: arguments and result

vars == <<rate_monitor_A, rate_monitor_B, avg_window_width, rate_threshold,
          dt, pc, smoothed_rates_A, smoothed_rates_B, decision, runs, log>>

(***************************************************************************)
(* Bounds of the model.                                                    *)
(***************************************************************************)
MaxLen == 4
MaxWidth == 5
ScenarioLen == 60
MaxRuns == 3

Rates == {0, 60}
Thresholds == {-1, 0, 20, 45}
DtSet == {1, 10}
Widths == (-2)..MaxWidth

NoResult == <<>>

SeqsUpTo(S, n) == UNION {[1..k -> S] : k \in 1..n}
Series == SeqsUpTo(Rates, MaxLen)

\* The two concrete scenarios: a step from 0 Hz to 60 Hz at sample 50
\* against a silent right side, and both sides constant at 10 Hz.
StepSeries == [i \in 1..ScenarioLen |-> IF i <= 50 THEN 0 ELSE 60]
ConstSeries(v) == [i \in 1..ScenarioLen |-> v]
Scenarios == {<<StepSeries, ConstSeries(0)>>, <<ConstSeries(10), ConstSeries(10)>>}

Min(a, b) == IF a <= b THEN a ELSE b
Max(a, b) == IF a >= b THEN a ELSE b

(***************************************************************************)
(* PopulationRateMonitor.smooth_rate(window="flat", width=w):              *)
(*   width_dt = int(width / 2 / dt) * 2 + 1                                *)
(*   window   = ones(width_dt)                                             *)
(*   convolve(rate, window / sum(window), mode="same")                     *)
(***************************************************************************)
\* int() truncates toward zero
IntHalf(x) == IF x >= 0 THEN x \div 2 ELSE -((-x) \div 2)

\* variant: the halving of the width left out
width_dt_full(width) == width * 2 + 1

width_dt(width) == IntHalf(width) * 2 + 1

\* ones(n) raises ValueError for a negative n
ones_raises(width) == width_dt(width) < 0

RECURSIVE SumRange(_, _, _)
SumRange(rate, lo, hi) ==
  IF lo > hi THEN 0 ELSE rate[lo] + SumRange(rate, lo + 1, hi)

\* variant: the window laid ahead of the sample (samples o .. o+wd-1)
convolve_same_ahead(rate, wd) ==
  LET n == Len(rate)
  IN [p \in 1..Max(n, wd) |->
        LET m == (p - 1) + (wd - 1)
        IN SumRange(rate, Max(m - wd + 1, 0) + 1, Min(m, n - 1) + 1)]

\* convolve(rate, ones(wd), mode="same"): the centred slice, of length
\* max(n, wd), of the full convolution; output sample o is full sample
\* o + (min(n, wd) - 1) div 2, the sum of the rate samples m-wd+1 .. m.
convolve_same(rate, wd) ==
  LET n == Len(rate)
      shift == (Min(n, wd) - 1) \div 2
  IN [p \in 1..Max(n, wd) |->
        LET m == (p - 1) + shift
        IN SumRange(rate, Max(m - wd + 1, 0) + 1, Min(m, n - 1) + 1)]

\* variant: the window not divided by its sum
smooth_rate_unnormalised(rate, width) ==
  [num |-> convolve_same(rate, width_dt(width)), den |-> 1]

smooth_rate(rate, width) ==
  [num |-> convolve_same(rate, width_dt(width)), den |-> width_dt(width)]

\* variant: >= in place of >
exceeds_ge(smoothed, threshold) ==
  [p \in 1..Len(smoothed.num) |-> smoothed.num[p] >= threshold * smoothed.den]

\* smoothed_rates > rate_threshold, elementwise
exceeds(smoothed, threshold) ==
  [p \in 1..Len(smoothed.num) |-> smoothed.num[p] > threshold * smoothed.den]

\* variant: the last occurrence of the maximum
argmax_last(b) ==
  LET mx == \E p \in DOMAIN b : b[p]
  IN (CHOOSE p \in DOMAIN b :
        (b[p] <=> mx) /\ \A q \in (p + 1)..Len(b) : ~(b[q] <=> mx)) - 1

\* numpy.argmax of a boolean array: the index of the first occurrence of
\* its maximum (the first True, or 0 when every entry is False)
argmax(b) ==
  LET mx == \E p \in DOMAIN b : b[p]
  IN (CHOOSE p \in DOMAIN b :
        (b[p] <=> mx) /\ \A q \in 1..(p - 1) : ~(b[q] <=> mx)) - 1

\* one side of the fragment: t = idx * b2.defaultclock.dt
decision_time(rate, width, threshold) ==
  argmax(exceeds(smooth_rate(rate, width), threshold)) * dt

\* variant: the right side's time taken from the left monitor
get_decision_time_same_side(rate_A, rate_B, width, threshold) ==
  <<decision_time(rate_A, width, threshold),
    decision_time(rate_A, width, threshold)>>

\* variant: both series cut to the shorter one's length
get_decision_time_truncating(rate_A, rate_B, width, threshold) ==
  LET n == Min(Len(rate_A), Len(rate_B))
  IN <<decision_time(SubSeq(rate_A, 1, n), width, threshold),
       decision_time(SubSeq(rate_B, 1, n), width, threshold)>>

\* variant: the times carried over from the previous invocation are added
get_decision_time_accumulating(rate_A, rate_B, width, threshold) ==
  LET carry == IF decision = NoResult THEN <<0, 0>> ELSE decision
  IN <<carry[1] + decision_time(rate_A, width, threshold),
       carry[2] + decision_time(rate_B, width, threshold)>>

\* variant: when both sides cross, only the earlier one is reported
get_decision_time_winner(rate_A, rate_B, width, threshold) ==
  LET t_A == decision_time(rate_A, width, threshold)
      t_B == decision_time(rate_B, width, threshold)
  IN IF t_A # 0 /\ t_B # 0
       THEN IF t_A <= t_B THEN <<t_A, 0>> ELSE <<0, t_B>>
       ELSE <<t_A, t_B>>

get_decision_time(rate_A, rate_B, width, threshold) ==
  <<decision_time(rate_A, width, threshold),
    decision_time(rate_B, width, threshold)>>

Entry == [A |-> rate_monitor_A, B |-> rate_monitor_B,
          width |-> avg_window_width, threshold |-> rate_threshold]

(***************************************************************************)
(* One invocation of get_decision_time on the monitors of a simulation.    *)
(***************************************************************************)
Init ==
  /\ \E pair \in (Series \X Series) \cup Scenarios :
        /\ rate_monitor_A = pair[1]
        /\ rate_monitor_B = pair[2]
  /\ avg_window_width \in Widths
  /\ rate_threshold \in Thresholds
  /\ dt \in DtSet
  /\ pc = "call"
  /\ smoothed_rates_A = NoResult
  /\ smoothed_rates_B = NoResult
  /\ decision = NoResult
  /\ runs = 0
  /\ log = {}

GetDecisionTime ==
  /\ pc = "call"
  /\ IF ones_raises(avg_window_width)
       THEN /\ pc' = "raised"
            /\ smoothed_rates_A' = NoResult
            /\ smoothed_rates_B' = NoResult
            /\ decision' = NoResult
            /\ log' = log
       ELSE /\ pc' = "returned"
            /\ smoothed_rates_A' = smooth_rate(rate_monitor_A, avg_window_width)
            /\ smoothed_rates_B' = smooth_rate(rate_monitor_B, avg_window_width)
            /\ decision' = get_decision_time(rate_monitor_A, rate_monitor_B,
                                             avg_window_width, rate_threshold)
            /\ log' = log \cup {[args |-> Entry, result |-> decision']}
  /\ runs' = runs + 1
  /\ UNCHANGED <<rate_monitor_A, rate_monitor_B, avg_window_width,
                 rate_threshold, dt>>

Next == GetDecisionTime

Spec == Init /\ [][Next]_vars

(***************************************************************************)
(* One invocation on well-formed arguments: a window of 1, 3 or the        *)
(* largest number of samples and a positive threshold.                     *)
(***************************************************************************)
SideWidths == {1, 2, MaxWidth}
SideThresholds == {20, 45}

InitSides ==
  /\ rate_monitor_A \in Series
  /\ rate_monitor_B \in Series
  /\ avg_window_width \in SideWidths
  /\ rate_threshold \in SideThresholds
  /\ dt \in DtSet
  /\ pc = "call"
  /\ smoothed_rates_A = NoResult
  /\ smoothed_rates_B = NoResult
  /\ decision = NoResult
  /\ runs = 0
  /\ log = {}

SpecSides == InitSides /\ [][Next]_vars

(***************************************************************************)
(* The batch of the notebook's Exercise 4: run_multiple_simulations is     *)
(* handed get_decision_time and calls it once per simulation, with the     *)
(* same avg_window_width and rate_threshold throughout.                    *)
(***************************************************************************)
BatchSeries == [1..2 -> {0, 60}]
BatchWidths == {-2, 1, 3}

InitBatch ==
  /\ rate_monitor_A \in BatchSeries
  /\ rate_monitor_B \in BatchSeries
  /\ avg_window_width \in BatchWidths
  /\ rate_threshold = 45
  /\ dt \in DtSet
  /\ pc = "call"
  /\ smoothed_rates_A = NoResult
  /\ smoothed_rates_B = NoResult
  /\ decision = NoResult
  /\ runs = 0
  /\ log = {}

\* the next repetition: a new simulation yields new monitors, and the
\* batch runner calls the detector on them
NextSimulation ==
  /\ pc = "returned"
  /\ runs < MaxRuns
  /\ rate_monitor_A' \in BatchSeries
  /\ rate_monitor_B' \in BatchSeries
  /\ pc' = "call"
  /\ UNCHANGED <<avg_window_width, rate_threshold, dt, smoothed_rates_A,
                 smoothed_rates_B, decision, runs, log>>

NextBatch == GetDecisionTime \/ NextSimulation

SpecBatch == InitBatch /\ [][NextBatch]_vars

(***************************************************************************)
(* Vocabulary of the properties.                                           *)
(***************************************************************************)
Sides == {1, 2}
Monitor(side) == IF side = 1 THEN rate_monitor_A ELSE rate_monitor_B
Smoothed(side) == IF side = 1 THEN smoothed_rates_A ELSE smoothed_rates_B

\* the sample indices (from 0) at which the smoothed rate of a series is
\* strictly above the threshold
Crossings(rate, width, threshold) ==
  LET s == smooth_rate(rate, width)
  IN {p - 1 : p \in {q \in 1..Len(s.num) : s.num[q] > threshold * s.den}}

IsFirst(k, S) == k \in S /\ \A j \in S : k <= j

StrictlyBelow(rate, width, threshold) ==
  LET s == smooth_rate(rate, width)
  IN \A q \in 1..Len(s.num) : s.num[q] < threshold * s.den

ValidInput ==
  /\ Len(rate_monitor_A) = Len(rate_monitor_B)
  /\ avg_window_width >= 1
  /\ rate_threshold >= 0

IsStepScenario ==
  /\ rate_monitor_A = StepSeries
  /\ rate_monitor_B = ConstSeries(0)
  /\ dt = 10
  /\ rate_threshold = 45
  /\ avg_window_width = 1

IsConstScenario ==
  /\ rate_monitor_A = ConstSeries(10)
  /\ rate_monitor_B = ConstSeries(10)
  /\ rate_threshold = 45

\* C1: with window width 1, a side whose smoothed rate is first strictly
\* above the threshold at sample k gets the time k * dt; the step scenario
\* (0 Hz up to sample 49, 60 Hz from sample 50, dt = 1 ms, threshold 45 Hz)
\* gives (50 ms, 0 ms).
C1_FirstCrossingTime ==
  (pc = "returned" /\ avg_window_width = 1) =>
    /\ \A side \in Sides :
         \A k \in Crossings(Monitor(side), 1, rate_threshold) :
            IsFirst(k, Crossings(Monitor(side), 1, rate_threshold))
              => decision[side] = k * dt
    /\ IsStepScenario => decision = <<500, 0>>

C1_Witness ==
  /\ pc = "returned"
  /\ IsStepScenario
  /\ IsFirst(50, Crossings(rate_monitor_A, 1, rate_threshold))
  /\ decision = <<500, 0>>

\* C2: a side whose smoothed rate stays strictly below the threshold for
\* its whole length gets the time zero; both sides constant at 10 Hz with
\* threshold 45 Hz give (0, 0).
C2_BelowThresholdIsZero ==
  pc = "returned" =>
    /\ \A side \in Sides :
         StrictlyBelow(Monitor(side), avg_window_width, rate_threshold)
           => decision[side] = 0
    /\ IsConstScenario => decision = <<0, 0>>

C2_Witness ==
  /\ pc = "returned"
  /\ IsConstScenario
  /\ avg_window_width = 5
  /\ StrictlyBelow(rate_monitor_A, avg_window_width, rate_threshold)
  /\ decision = <<0, 0>>

FirstOrZero(S) == IF S = {} THEN 0 ELSE CHOOSE k \in S : IsFirst(k, S)

CrossesAt(side) ==
  Crossings(Monitor(side), avg_window_width, rate_threshold)

\* C3 as stated: for valid input the result never has both components
\* non-zero.
C3_NeverBothNonZero ==
  (pc = "returned" /\ ValidInput) =>
    ~(decision[1] # 0 /\ decision[2] # 0)

\* C3 (amended): for valid input both components are non-zero exactly when
\* the smoothed rates of both sides cross the threshold, each first at a
\* sample index of at least 1; otherwise at most one component is non-zero.
C3_BothNonZeroIffBothCross ==
  (pc = "returned" /\ ValidInput) =>
    ((decision[1] # 0 /\ decision[2] # 0)
       <=> \A side \in Sides : \E k \in CrossesAt(side) :
              k >= 1 /\ IsFirst(k, CrossesAt(side)))

C3_Witness ==
  /\ pc = "returned"
  /\ ValidInput
  /\ decision[1] # 0
  /\ decision[2] # 0
  /\ decision[1] # decision[2]

Malformed ==
  \/ Len(rate_monitor_A) # Len(rate_monitor_B)
  \/ rate_threshold < 0
  \/ avg_window_width <= 0

\* C4 as stated: on malformed input the call signals an invalid argument
\* and returns no result.
C4_MalformedRaises ==
  (pc # "call" /\ Malformed) => (pc = "raised" /\ decision = NoResult)

\* C4 (amended): nothing is validated.  The call raises only when the
\* window's sample count int(width/2/dt)*2+1 is negative (width <= -2
\* samples); any other malformed input returns a result in which each
\* side's time is its first crossing over its own full series, nothing
\* being truncated, and a width of 0 or -1 samples is coerced to a window
\* of one sample.
C4_NoValidation ==
  (pc # "call" /\ Malformed) =>
    /\ pc = "raised" <=> avg_window_width <= -2
    /\ pc = "returned" =>
         \A side \in Sides :
            /\ Len(Smoothed(side).num)
                 = Max(Len(Monitor(side)), Smoothed(side).den)
            /\ avg_window_width <= 0 => Smoothed(side).den = 1
            /\ decision[side] = FirstOrZero(CrossesAt(side)) * dt

C4_Witness ==
  /\ pc = "returned"
  /\ rate_threshold >= 0
  /\ avg_window_width = 1
  /\ Len(rate_monitor_A) < Len(rate_monitor_B)
  /\ decision[2] = Len(rate_monitor_A) * dt

\* C5: when the smoothed rates of both sides cross the threshold, both
\* returned times are non-zero and each is the first-crossing time of its
\* own side.
C5_BothCrossBothNonZero ==
  (pc = "returned" /\ ValidInput
     /\ CrossesAt(1) # {} /\ CrossesAt(2) # {}) =>
    /\ decision[1] # 0
    /\ decision[2] # 0
    /\ \A side \in Sides : decision[side] = FirstOrZero(CrossesAt(side)) * dt

\* C6: smoothing with a window of one sample is the identity: same length
\* and the same value at every sample.
C6_WidthOneIdentity ==
  (pc = "returned" /\ avg_window_width = 1) =>
    \A side \in Sides :
       /\ Len(Smoothed(side).num) = Len(Monitor(side))
       /\ \A p \in 1..Len(Monitor(side)) :
            Smoothed(side).num[p] = Monitor(side)[p] * Smoothed(side).den

C6_Witness ==
  /\ pc = "returned"
  /\ avg_window_width = 1
  /\ rate_monitor_A = <<0, 60, 0>>
  /\ smoothed_rates_A.num = rate_monitor_A
  /\ smoothed_rates_A.den = 1

\* C8: a component of the result is zero exactly when that side has no
\* crossing, and strictly positive when it has one.
C8_ZeroIffNoCrossing ==
  (pc = "returned" /\ ValidInput) =>
    \A side \in Sides :
       /\ decision[side] = 0 <=> CrossesAt(side) = {}
       /\ CrossesAt(side) # {} => decision[side] > 0

NonDecreasing(rate) == \A p \in 1..(Len(rate) - 1) : rate[p] <= rate[p + 1]

\* samples on each side of the centre of the window smooth_rate uses
HalfWindow(width) == (width_dt(width) - 1) \div 2

\* C7 as stated: for a non-decreasing series and widths w1 <= w2, a crossing
\* found with w2 at index k2 comes with a crossing found with w1 at an
\* index k1 <= k2.
C7_WiderNeverEarlier ==
  (pc = "returned" /\ avg_window_width >= 1) =>
    \A side \in Sides : NonDecreasing(Monitor(side)) =>
      \A w1 \in 1..avg_window_width :
        \A k2 \in CrossesAt(side) : IsFirst(k2, CrossesAt(side)) =>
          \E k1 \in Crossings(Monitor(side), w1, rate_threshold) : k1 <= k2

\* C7 (amended): for a non-decreasing series and widths w1 <= w2, a crossing
\* found with w2 at index k2 comes with a crossing found with w1 at an
\* index k1 <= k2 + (n2 - n1) / 2, where n1 <= n2 are the odd sample counts
\* of the two windows: the wider window never creates a crossing, and it
\* moves the first crossing earlier by at most half the difference of the
\* window lengths.
C7_WiderEarlierByHalfDifference ==
  (pc = "returned" /\ avg_window_width >= 1) =>
    \A side \in Sides : NonDecreasing(Monitor(side)) =>
      \A w1 \in 1..avg_window_width :
        \A k2 \in CrossesAt(side) : IsFirst(k2, CrossesAt(side)) =>
          \E k1 \in Crossings(Monitor(side), w1, rate_threshold) :
             k1 <= k2 + (HalfWindow(avg_window_width) - HalfWindow(w1))

C7_Witness ==
  /\ pc = "returned"
  /\ avg_window_width = 3
  /\ rate_threshold = 0
  /\ rate_monitor_A = <<0, 0, 60, 60>>
  /\ NonDecreasing(rate_monitor_A)
  /\ IsFirst(1, CrossesAt(1))
  /\ IsFirst(2, Crossings(rate_monitor_A, 1, rate_threshold))
  /\ decision[1] = dt

\* the series of the model that have the length of rate and agree with it
\* on the sample indices 0 .. last
AgreeingUpTo(rate, last) ==
  {alt \in Series : /\ Len(alt) = Len(rate)
                    /\ \A p \in 1..Min(last + 1, Len(rate)) : alt[p] = rate[p]}

\* C9 as stated: the smoothing is causal: changing raw samples after the
\* first-crossing index of a side leaves that side's decision time
\* unchanged.
C9_CausalSmoothing ==
  pc = "returned" =>
    \A side \in Sides : Len(Monitor(side)) <= MaxLen =>
      \A k \in CrossesAt(side) : IsFirst(k, CrossesAt(side)) =>
        \A alt \in AgreeingUpTo(Monitor(side), k) :
           decision_time(alt, avg_window_width, rate_threshold)
             = decision[side]

\* C9 (amended): the smoothed value at index i depends on the raw samples
\* up to index i + h only, h being the half width of the centred window:
\* changing raw samples after index k + h, k the first-crossing index of a
\* side, leaves that side's decision time unchanged.
C9_DependsUpToHalfWindowAhead ==
  pc = "returned" =>
    \A side \in Sides : Len(Monitor(side)) <= MaxLen =>
      \A k \in CrossesAt(side) : IsFirst(k, CrossesAt(side)) =>
        \A alt \in AgreeingUpTo(Monitor(side),
                                k + HalfWindow(avg_window_width)) :
           decision_time(alt, avg_window_width, rate_threshold)
             = decision[side]

C9_Witness ==
  /\ pc = "returned"
  /\ avg_window_width = 3
  /\ rate_threshold = 20
  /\ rate_monitor_A = <<0, 60, 60, 0>>
  /\ IsFirst(1, CrossesAt(1))
  /\ <<0, 60, 60, 60>> \in AgreeingUpTo(rate_monitor_A, 2)
  /\ decision_time(<<0, 60, 60, 60>>, 3, 20) = decision[1]
  /\ decision[1] = dt

SameLength(rate) == {alt \in Series : Len(alt) = Len(rate)}

\* C11: the two sides are evaluated independently: with the window width
\* and the threshold fixed, the time returned for the left side is
\* unchanged by any change to the right series that keeps its length, and
\* the time returned for the right side is unchanged by any such change to
\* the left series.
C11_SidesIndependent ==
  pc = "returned" =>
    /\ \A alt \in SameLength(rate_monitor_B) :
         get_decision_time(rate_monitor_A, alt,
                           avg_window_width, rate_threshold)[1] = decision[1]
    /\ \A alt \in SameLength(rate_monitor_A) :
         get_decision_time(alt, rate_monitor_B,
                           avg_window_width, rate_threshold)[2] = decision[2]

\* the left side crosses at sample 1 while the right side never does, and
\* a right series that crosses at sample 2 leaves the left time as it is
C11_Witness ==
  /\ pc = "returned"
  /\ avg_window_width = 1
  /\ rate_threshold = 45
  /\ rate_monitor_A = <<0, 60, 60, 60>>
  /\ rate_monitor_B = <<0, 0, 0, 0>>
  /\ decision = <<dt, 0>>
  /\ <<0, 0, 60, 60>> \in SameLength(rate_monitor_B)
  /\ get_decision_time(rate_monitor_A, <<0, 0, 60, 60>>,
                       avg_window_width, rate_threshold) = <<dt, 2 * dt>>

====
